---- MODULE Spec2Model ----
(***************************************************************************)
(* Model of src/docker.js: the process runner execCommand, the container   *)
(* lister getContainers and the command dispatcher runCommand.             *)
(*                                                                         *)
(* A JavaScript string is a sequence of one-character strings, so that     *)
(* split, trim, join, indexing and JSON.parse are computed, not assumed.   *)
(* An array of strings is a sequence of such sequences.                    *)
(***************************************************************************)
EXTENDS Naturals, Sequences, FiniteSets, TLC

VARIABLES calls, log, spawned, gc, rc

vars == <<calls, log, spawned, gc, rc>>

----------------------------------------------------------------------------
(* Bounds of the model. *)

\* Longest listing output (in characters) the "docker ps" child may print.
MaxLen == 4

\* Most extra array elements (command arguments) passed with an action id.
MaxArgs == 1

----------------------------------------------------------------------------
(* JavaScript values and string primitives. *)

\* The value undefined (no string has a several-character element).
undefined == << "<undefined>" >>

Whitespace == {" ", "\n", "\t", "\r"}

\* A value used as a condition: undefined and "" are falsy.
Truthy(v) == v # undefined /\ v # <<>>

RECURSIVE TrimStart(_)
TrimStart(s) ==
  IF s # <<>> /\ Head(s) \in Whitespace THEN TrimStart(Tail(s)) ELSE s

RECURSIVE TrimEnd(_)
TrimEnd(s) ==
  IF s # <<>> /\ s[Len(s)] \in Whitespace
  THEN TrimEnd(SubSeq(s, 1, Len(s) - 1))
  ELSE s

\* String.prototype.trim
Trim(s) == TrimEnd(TrimStart(s))

RECURSIVE SplitFrom(_, _, _, _, _)
SplitFrom(s, sep, i, cur, acc) ==
  IF i > Len(s) THEN Append(acc, cur)
  ELSE IF s[i] = sep THEN SplitFrom(s, sep, i + 1, <<>>, Append(acc, cur))
  ELSE SplitFrom(s, sep, i + 1, Append(cur, s[i]), acc)

\* String.prototype.split with a one-character separator.
Split(s, sep) == SplitFrom(s, sep, 1, <<>>, <<>>)

RECURSIVE Join(_, _)
\* Array.prototype.join
Join(arr, sep) ==
  IF arr = <<>> THEN <<>>
  ELSE IF Len(arr) = 1 THEN arr[1]
  ELSE arr[1] \o sep \o Join(Tail(arr), sep)

\* Array destructuring: the i-th element, undefined past the end.
At(arr, i) == IF i \in 1..Len(arr) THEN arr[i] ELSE undefined

\* lines.filter((line) => line.trim().length)
RECURSIVE NonBlankLines(_)
NonBlankLines(lines) ==
  IF lines = <<>> THEN <<>>
  ELSE (IF Len(Trim(Head(lines))) # 0 THEN <<Head(lines)>> ELSE <<>>)
       \o NonBlankLines(Tail(lines))

\* Whether sub occurs in s (used to read messages).
Contains(s, sub) ==
  \E i \in 1..(Len(s) + 1) :
    /\ i + Len(sub) - 1 <= Len(s)
    /\ SubSeq(s, i, i + Len(sub) - 1) = sub

----------------------------------------------------------------------------
(* JSON.parse, for the texts "docker inspect -f {{json .Config.Labels}}"   *)
(* prints: the literal null, or an object of string members.  A parsed     *)
(* object is the sequence of its <<key, value>> members in text order.     *)

JSONNull == [type |-> "null", members |-> <<>>]
JSONSyntaxError == [type |-> "SyntaxError", members |-> <<>>]
JSONObject(members) == [type |-> "object", members |-> members]

\* The index of the first quote at or after i, 0 if there is none.
RECURSIVE NextQuote(_, _)
NextQuote(t, i) ==
  IF i > Len(t) THEN 0
  ELSE IF t[i] = "\"" THEN i
  ELSE NextQuote(t, i + 1)

\* A string literal starting at i: [ok, val, next].
ParseString(t, i) ==
  IF i > Len(t) \/ t[i] # "\"" THEN [ok |-> FALSE, val |-> <<>>, next |-> 0]
  ELSE LET j == NextQuote(t, i + 1)
       IN  IF j = 0 \/ \E k \in (i + 1)..(j - 1) : t[k] = "\\"
           THEN [ok |-> FALSE, val |-> <<>>, next |-> 0]
           ELSE [ok |-> TRUE, val |-> SubSeq(t, i + 1, j - 1), next |-> j + 1]

\* The members from position i on, up to the closing brace that ends t.
RECURSIVE ParseMembers(_, _, _)
ParseMembers(t, i, acc) ==
  LET k == ParseString(t, i)
  IN  IF ~k.ok \/ k.next > Len(t) \/ t[k.next] # ":" THEN JSONSyntaxError
      ELSE LET v == ParseString(t, k.next + 1)
               m == Append(acc, <<k.val, v.val>>)
           IN  IF ~v.ok \/ v.next > Len(t) THEN JSONSyntaxError
               ELSE IF t[v.next] = "}"
                    THEN (IF v.next = Len(t) THEN JSONObject(m) ELSE JSONSyntaxError)
               ELSE IF t[v.next] = "," THEN ParseMembers(t, v.next + 1, m)
               ELSE JSONSyntaxError

JSONParse(text) ==
  LET t == Trim(text)
  IN  IF t = <<"n","u","l","l">> THEN JSONNull
      ELSE IF t = <<"{","}">> THEN JSONObject(<<>>)
      ELSE IF t # <<>> /\ t[1] = "{" THEN ParseMembers(t, 2, <<>>)
      ELSE JSONSyntaxError

\* obj[key] on a parsed object: the last member of that key, else undefined.
RECURSIVE Member(_, _)
Member(members, key) ==
  IF members = <<>> THEN undefined
  ELSE IF members[Len(members)][1] = key THEN members[Len(members)][2]
  ELSE Member(SubSeq(members, 1, Len(members) - 1), key)

\* The compact JSON text of an object of string members, as docker prints it.
RECURSIVE JSONMembersText(_)
JSONMembersText(members) ==
  IF members = <<>> THEN <<>>
  ELSE <<"\"">> \o members[1][1] \o <<"\"", ":", "\"">> \o members[1][2] \o <<"\"">>
       \o (IF Len(members) > 1 THEN <<",">> ELSE <<>>)
       \o JSONMembersText(Tail(members))

JSONText(members) == <<"{">> \o JSONMembersText(members) \o <<"}">>

----------------------------------------------------------------------------
(* Errors, and the events the caller can observe. *)

NoError == [kind |-> "none", code |-> 0, message |-> <<>>]

\* What proc.init(null) throws when the child cannot be launched.
SpawnFailure == [kind |-> "SpawnFailure", code |-> 0, message |-> <<"F","a","i","l","e","d"," ","t","o"," ","e","x","e","c","u","t","e"," ","c","h","i","l","d"," ","p","r","o","c","e","s","s">>]

\* What communicate_utf8_finish throws when the communication itself fails.
CommunicateError == [kind |-> "GError", code |-> 0, message |-> <<"c","o","m","m","u","n","i","c","a","t","e"," ","f","a","i","l","e","d">>]

\* "x is not a function", "cannot read properties of null".
TypeError == [kind |-> "TypeError", code |-> 0, message |-> <<>>]

SyntaxError == [kind |-> "SyntaxError", code |-> 0, message |-> <<>>]

\* GLib.strerror: the system's text for an errno (a stand-in for libc's table).
strerror(status) == <<"e","r","r","n","o"," ">> \o << IF status = 1 THEN "1" ELSE "2" >>

\* new Gio.IOErrorEnum({code, message}) of the failure branch.
IOErrorEnum(status, stderr) ==
  [kind |-> "IOErrorEnum", code |-> status,
   message |-> IF stderr # <<>> THEN Trim(stderr) ELSE strerror(status)]

\* A value handed to the callback as its command: a string or an array.
StringValue(s) == [isArray |-> FALSE, str |-> s, items |-> <<>>]
ArrayValue(a) == [isArray |-> TRUE, str |-> <<>>, items |-> a]

\* callback(ok, cmd, out); id is the child's index in calls, 0 if there is none.
CallbackEv(id, ok, cmd, out) ==
  [ev |-> "callback", id |-> id, ok |-> ok, cmd |-> cmd, out |-> out]

\* resolve(stdout) of the promise execCommand returned.
ResolveEv(id) ==
  [ev |-> "resolve", id |-> id, ok |-> TRUE, cmd |-> StringValue(<<>>), out |-> <<>>]

\* reject(e), or the throw out of the async function.
RejectEv(id) ==
  [ev |-> "reject", id |-> id, ok |-> FALSE, cmd |-> StringValue(<<>>), out |-> <<>>]

----------------------------------------------------------------------------
(* execCommand *)

\* The call up to the promise it returns: the child is launched, or
\* proc.init throws, which the outer catch rethrows.
execCommand(argv, hasCb, spawnOK) ==
  [argv |-> argv, hasCb |-> hasCb,
   state |-> IF spawnOK THEN "running" ELSE "rejected",
   value |-> <<>>,
   error |-> IF spawnOK THEN NoError ELSE SpawnFailure]

\* What the outer catch lets the caller observe of a call just made.
LaunchLog(c, id) == IF c.state = "rejected" THEN <<RejectEv(id)>> ELSE <<>>

\* What communicate_utf8_finish does: it throws, or it returns
\* [ok, stdout, stderr]; status is what proc.get_exit_status() then gives.
\* The code reads ok = false as the failure of the child.
CommThrows == [throws |-> TRUE, ok |-> FALSE, stdout |-> <<>>, stderr |-> <<>>, status |-> 0]
CommFails(stderr, status) ==
  [throws |-> FALSE, ok |-> FALSE, stdout |-> <<>>, stderr |-> stderr, status |-> status]
CommSucceeds(stdout) ==
  [throws |-> FALSE, ok |-> TRUE, stdout |-> stdout, stderr |-> <<>>, status |-> 0]

\* The promise of call c once the communicate callback has run with res.
Settled(c, res) ==
  IF res.throws THEN [c EXCEPT !.state = "rejected", !.error = CommunicateError]
  ELSE IF ~res.ok
       THEN [c EXCEPT !.state = "rejected", !.error = IOErrorEnum(res.status, res.stderr)]
       ELSE [c EXCEPT !.state = "resolved", !.value = res.stdout]

\* callback && callback(ok, argv.join(" "), ok ? stdout : stderr)
CallbackLog(c, id, res) ==
  IF ~res.throws /\ c.hasCb
  THEN <<CallbackEv(id, res.ok, StringValue(Join(c.argv, <<" ">>)),
                    IF res.ok THEN res.stdout ELSE res.stderr)>>
  ELSE <<>>

\* The events of the communicate callback, in the order the code makes them.
SettleLog(c, id, res) ==
  CallbackLog(c, id, res)
    \o << IF ~res.throws /\ res.ok THEN ResolveEv(id) ELSE RejectEv(id) >>

\* The ways a child can fail: its stderr and exit status.
Failures == { [stderr |-> <<>>, status |-> 1], [stderr |-> <<"e"," ","\n">>, status |-> 2] }

FailedResults == {CommThrows} \cup {CommFails(f.stderr, f.status) : f \in Failures}

----------------------------------------------------------------------------
(* getContainers *)

COMPOSE_PREFIX == <<"c","o","m",".","d","o","c","k","e","r",".","c","o","m","p","o","s","e">>

PsArgv == << <<"d","o","c","k","e","r">>, <<"p","s">>, <<"-","a">>, <<"-","-","f","o","r","m","a","t">>, <<"{","{",".","N","a","m","e","s","}","}",",","{","{",".","S","t","a","t","u","s","}","}">> >>

InspectArgv(name) ==
  << <<"d","o","c","k","e","r">>, <<"i","n","s","p","e","c","t">>, <<"-","f">>, <<"{","{","j","s","o","n"," ",".","C","o","n","f","i","g",".","L","a","b","e","l","s","}","}">>, name >>

\* psOut.split("\n").filter(...).map(line => { [name, status] = line.split(",") })
ParseImages(psOut) ==
  LET lines == NonBlankLines(Split(psOut, "\n"))
  IN  [i \in 1..Len(lines) |->
         LET fields == Split(lines[i], ",")
         IN  [name |-> At(fields, 1), status |-> At(fields, 2)]]

\* The calls of the fan-out: images.map(({name}) => execCommand([...name]))
InspectCalls(images, spawns) ==
  [i \in 1..Len(images) |-> execCommand(InspectArgv(images[i].name), FALSE, spawns[i])]

RECURSIVE LaunchLogs(_, _, _)
LaunchLogs(cs, i, base) ==
  IF i > Len(cs) THEN <<>>
  ELSE LaunchLog(cs[i], base + i) \o LaunchLogs(cs, i + 1, base)

\* The ids, in the order they happened, of the resolve events of lg.
RECURSIVE ResolvedOrder(_)
ResolvedOrder(lg) ==
  IF lg = <<>> THEN <<>>
  ELSE (IF Head(lg).ev = "resolve" THEN <<Head(lg).id>> ELSE <<>>)
       \o ResolvedOrder(Tail(lg))

\* A fan-in that takes the values in the order the children completed.
containersInfoByCompletion(cs, n, lg) ==
  [i \in 1..n |-> cs[ResolvedOrder(lg)[i + 1]].value]

\* The array Promise.all fulfils with: the value of the i-th promise at i.
\* The inspect call of image i is calls[i + 1]; lg is the event log so far.
containersInfo(cs, n, lg) == [i \in 1..n |-> cs[i + 1].value]

\* The empty object {} and the spread {...a, ...b}.
EmptyObject == [k \in {} |-> <<>>]
Spread(a, b) ==
  [k \in (DOMAIN a) \cup (DOMAIN b) |-> IF k \in DOMAIN b THEN b[k] ELSE a[k]]

ProjectKey == COMPOSE_PREFIX \o <<".","p","r","o","j","e","c","t">>
ServiceKey == COMPOSE_PREFIX \o <<".","s","e","r","v","i","c","e">>
ConfigFilesKey == COMPOSE_PREFIX \o <<".","p","r","o","j","e","c","t",".","c","o","n","f","i","g","_","f","i","l","e","s">>
WorkingDirKey == COMPOSE_PREFIX \o <<".","p","r","o","j","e","c","t",".","w","o","r","k","i","n","g","_","d","i","r">>

\* A compose part attached whenever the project key exists, empty or not.
ComposePartIfPresent(members) ==
  IF Member(members, ProjectKey) # undefined
  THEN [compose |->
          [service |-> Member(members, ServiceKey),
           project |-> Member(members, ProjectKey),
           configFiles |-> Member(members, ConfigFilesKey),
           workingDir |-> Member(members, WorkingDirKey)]]
  ELSE EmptyObject

\* The compose part of a record, from the members of the parsed labels.
ComposePart(members) ==
  IF Truthy(Member(members, ProjectKey))
  THEN [compose |->
          [service |-> Member(members, ServiceKey),
           project |-> Member(members, ProjectKey),
           configFiles |-> Member(members, ConfigFilesKey),
           workingDir |-> Member(members, WorkingDirKey)]]
  ELSE EmptyObject

\* One step of the final map: [threw, error, value].
ContainerRecord(commandOutput, image) ==
  LET jsonOutput == JSONParse(commandOutput)
  IN  IF jsonOutput.type = "SyntaxError"
      THEN [threw |-> TRUE, error |-> SyntaxError, value |-> EmptyObject]
      ELSE IF jsonOutput.type = "null"
      THEN [threw |-> TRUE, error |-> TypeError, value |-> EmptyObject]
      ELSE [threw |-> FALSE, error |-> NoError,
            value |-> Spread(ComposePart(jsonOutput.members), image)]

GcState(state, images, value, error) ==
  [state |-> state, images |-> images, value |-> value, error |-> error]

\* containersInfo.map(...): the promise of getContainers after the fan-in.
MapRecords(infos, images) ==
  LET recs == [i \in 1..Len(infos) |-> ContainerRecord(infos[i], images[i])]
      bad == {i \in 1..Len(infos) : recs[i].threw}
  IN  IF bad # {}
      THEN GcState("rejected", images, <<>>,
                   recs[CHOOSE i \in bad : \A j \in bad : i <= j].error)
      ELSE GcState("resolved", images, [i \in 1..Len(infos) |-> recs[i].value], NoError)

\* A fan-in that isolates failures: a failed inspect counts as no labels.
AfterFanInIsolated(g, cs, lg) ==
  LET n == Len(g.images)
  IN  IF g.state # "awaitAll" THEN g
      ELSE IF \A i \in 1..n : cs[i + 1].state # "running"
      THEN MapRecords([i \in 1..n |-> IF cs[i + 1].state = "resolved"
                                      THEN cs[i + 1].value ELSE <<"{","}">>],
                      g.images)
      ELSE g

\* await Promise.all(...) and what follows it, given the calls cs of the
\* fan-out (cs[1] is the listing) and the promise g of getContainers so far.
AfterFanIn(g, cs, lg) ==
  LET n == Len(g.images)
      failed == {i \in 1..n : cs[i + 1].state = "rejected"}
  IN  IF g.state # "awaitAll" THEN g
      ELSE IF failed # {}
      THEN GcState("rejected", g.images, <<>>,
                   cs[1 + CHOOSE i \in failed : \A j \in failed : i <= j].error)
      ELSE IF \A i \in 1..n : cs[i + 1].state = "resolved"
      THEN MapRecords(containersInfo(cs, n, lg), g.images)
      ELSE g

\* What the listing child may print: every text of at most MaxLen characters.
ListingAlphabet == {"a", ",", " ", "\n"}
ListingOutputs == UNION { [1..n -> ListingAlphabet] : n \in 0..MaxLen }

\* The label maps a container may carry, as JSON members in text order.
LabelMaps ==
  { <<>>,
    << <<<<"a">>, <<"b">>>> >>,
    << <<ProjectKey, <<"p">>>>, <<ServiceKey, <<"s">>>>,
       <<ConfigFilesKey, <<"f">>>>, <<WorkingDirKey, <<"w">>>> >>,
    << <<ServiceKey, <<"s">>>>, <<ProjectKey, <<"q">>>> >>,
    << <<ProjectKey, <<>> >>, <<ServiceKey, <<"s">>>> >> }

\* What the inspect child may print.
InspectOutputs ==
  { JSONText(m) \o <<"\n">> : m \in LabelMaps } \cup { <<"n","u","l","l","\n">>, <<>> }

PsResults == FailedResults \cup { CommSucceeds(o) : o \in ListingOutputs }
InspectResults == FailedResults \cup { CommSucceeds(o) : o \in InspectOutputs }

CallGetContainers(spawnOK) ==
  /\ gc.state = "notcalled" /\ rc.state = "notcalled"
  /\ LET c == execCommand(PsArgv, FALSE, spawnOK)
     IN  /\ calls' = <<c>>
         /\ log' = log \o LaunchLog(c, 1)
         /\ gc' = IF spawnOK THEN GcState("awaitPs", <<>>, <<>>, NoError)
                  ELSE GcState("rejected", <<>>, <<>>, c.error)
  /\ UNCHANGED <<spawned, rc>>

\* The number of inspect children a listing result makes getContainers launch.
NImages(res) == IF res.ok /\ ~res.throws THEN Len(ParseImages(res.stdout)) ELSE 0

\* The communicate callback of the listing child, and the continuation of
\* getContainers it wakes: the parse and the launch of every inspect child
\* (spawns[i]: whether the i-th inspect child launches).
PsFinish ==
  /\ gc.state = "awaitPs" /\ calls[1].state = "running"
  /\ \E res \in PsResults : \E spawns \in [1..NImages(res) -> BOOLEAN] :
       LET c == Settled(calls[1], res)
           lg == log \o SettleLog(calls[1], 1, res)
           images == ParseImages(c.value)
           fan == InspectCalls(images, spawns)
           all == <<c>> \o fan
       IN  IF c.state = "rejected"
           THEN /\ calls' = <<c>>
                /\ log' = lg
                /\ gc' = GcState("rejected", <<>>, <<>>, c.error)
           ELSE /\ calls' = all
                /\ log' = lg \o LaunchLogs(fan, 1, 1)
                /\ gc' = AfterFanIn(GcState("awaitAll", images, <<>>, NoError), all,
                                    lg \o LaunchLogs(fan, 1, 1))
  /\ UNCHANGED <<spawned, rc>>

\* The communicate callback of one inspect child, and the fan-in.
InspectFinish(id, res) ==
  /\ gc.state \in {"awaitAll", "rejected"}
  /\ id \in 2..Len(calls) /\ calls[id].state = "running"
  /\ LET cs == [calls EXCEPT ![id] = Settled(calls[id], res)]
         lg == log \o SettleLog(calls[id], id, res)
     IN  /\ calls' = cs
         /\ log' = lg
         /\ gc' = AfterFanIn(gc, cs, lg)
  /\ UNCHANGED <<spawned, rc>>

----------------------------------------------------------------------------
(* runCommand *)

start == <<"s","t","a","r","t">>
restart == <<"r","e","s","t","a","r","t">>
stop == <<"s","t","o","p">>
pause == <<"p","a","u","s","e">>
unpause == <<"u","n","p","a","u","s","e">>
compose == <<"c","o","m","p","o","s","e">>
exec == <<"e","x","e","c">>
logs == <<"l","o","g","s">>

\* The object dockerCommandsToLabels: its <<key, label>> pairs in order.
dockerCommandsToLabels ==
  << <<start, <<"S","t","a","r","t">>>>,
     <<restart, <<"R","e","s","t","a","r","t">>>>,
     <<stop, <<"S","t","o","p">>>>,
     <<pause, <<"P","a","u","s","e">>>>,
     <<unpause, <<"U","n","p","a","u","s","e">>>>,
     <<<<"c","o","m","p","o","s","e"," ","s","t","a","r","t">>, <<"S","t","a","r","t"," ","(","c","o","m","p","o","s","e",")">>>>,
     <<<<"c","o","m","p","o","s","e"," ","r","e","s","t","a","r","t">>, <<"R","e","s","t","a","r","t"," "," ","(","c","o","m","p","o","s","e",")">>>>,
     <<<<"c","o","m","p","o","s","e"," ","s","t","o","p">>, <<"S","t","o","p"," "," ","(","c","o","m","p","o","s","e",")">>>>,
     <<<<"c","o","m","p","o","s","e"," ","p","a","u","s","e">>, <<"P","a","u","s","e"," "," ","(","c","o","m","p","o","s","e",")">>>>,
     <<<<"c","o","m","p","o","s","e"," ","u","n","p","a","u","s","e">>, <<"U","n","p","a","u","s","e"," "," ","(","c","o","m","p","o","s","e",")">>>>,
     <<exec, <<"E","x","e","c">>>>,
     <<logs, <<"L","o","g","s">>>> >>

\* The fixed set of action ids.
ActionIds == { dockerCommandsToLabels[i][1] : i \in 1..Len(dockerCommandsToLabels) }

xTerminalEmulator == <<"x","-","t","e","r","m","i","n","a","l","-","e","m","u","l","a","t","o","r">>
gnomeTerminal == <<"g","n","o","m","e","-","t","e","r","m","i","n","a","l">>
ptyxis == <<"p","t","y","x","i","s">>
kgx == <<"k","g","x">>

\* The object validTerminals, given the programs find_program_in_path finds:
\* its <<id, found>> pairs in the order the code writes them.
validTerminals(found) ==
  << <<xTerminalEmulator, xTerminalEmulator \in found>>,
     <<gnomeTerminal, gnomeTerminal \in found>>,
     <<ptyxis, ptyxis \in found>>,
     <<kgx, kgx \in found>> >>

\* validTerminals[id]
Found(vt, id) == \E i \in 1..Len(vt) : vt[i][1] = id /\ vt[i][2]

\* The cmd the if-chain picks; [] when it reaches the else branch.
TerminalCmd(vt) ==
  IF Found(vt, kgx) THEN << kgx, <<"-","e">> >>
  ELSE IF Found(vt, ptyxis) THEN << ptyxis, <<"-","-">>, <<"s","h">>, <<"-","c">> >>
  ELSE IF Found(vt, gnomeTerminal) THEN << gnomeTerminal, <<"-","-">>, <<"s","h">>, <<"-","c">> >>
  ELSE IF Found(vt, xTerminalEmulator) THEN << xTerminalEmulator, <<"-","e">>, <<"s","h">>, <<"-","c">> >>
  ELSE <<>>

\* A message that lists only the terminals that were found.
errMsgFound(vt) ==
  <<"N","o"," ","v","a","l","i","d"," ","t","e","r","m","i","n","a","l"," ","f","o","u","n","d"," ","(">>
    \o LET f == SelectSeq(vt, LAMBDA t : t[2])
       IN  Join([i \in 1..Len(f) |-> f[i][1]], <<","," ">>)
    \o <<")">>

\* `No valid terminal found (${Object.keys(validTerminals).join(", ")})`
errMsg(vt) ==
  <<"N","o"," ","v","a","l","i","d"," ","t","e","r","m","i","n","a","l"," ","f","o","u","n","d"," ","(">>
    \o Join([i \in 1..Len(vt) |-> vt[i][1]], <<","," ">>)
    \o <<")">>

\* command[0]: the first character of a string, the first element of an array.
CommandAt0(command) ==
  IF command.isArray THEN At(command.items, 1)
  ELSE IF command.str = <<>> THEN undefined ELSE << command.str[1] >>

\* The branch the switch takes.
SwitchCase(command) ==
  IF CommandAt0(command) = exec THEN "exec"
  ELSE IF CommandAt0(command) = logs THEN "logs"
  ELSE "default"

\* The command line of the exec branch, as given to spawn_command_line_async.
ExecLine(cmd, containerName) ==
  Join(cmd \o << <<"'","d","o","c","k","e","r"," ","e","x","e","c"," ","-","i","t"," ">> \o containerName \o <<" ","s","h",";"," ","e","x","e","c"," ","$","S","H","E","L","L","'">> >>, <<" ">>)

\* The command line of the logs branch.
LogsLine(cmd, containerName) ==
  Join(cmd \o << <<"'","d","o","c","k","e","r"," ","l","o","g","s"," ","-","f"," ","-","-","t","a","i","l"," ","2","0","0","0"," ">> \o containerName \o <<";"," ","e","x","e","c"," ","$","S","H","E","L","L","'"," ">> >>,
       <<" ">>)

\* [command].flat()
Flat1(command) == IF command.isArray THEN command.items ELSE << command.str >>

\* An argv that always ends with the container name.
DefaultArgvWithName(command, containerName) ==
  LET flat == Flat1(command)
      tokens == Split(flat[1], " ")
  IN  << <<"d","o","c","k","e","r">>, At(tokens, 1) >> \o Tail(flat) \o <<containerName>>

\* The argv of the default branch.
DefaultArgv(command, containerName) ==
  LET flat == Flat1(command)
      commands == flat[1]
      commandArguments == Tail(flat)
      tokens == Split(commands, " ")
      dockerCommand1 == At(tokens, 1)
      dockerCommand2 == At(tokens, 2)
  IN  << <<"d","o","c","k","e","r">>, dockerCommand1 >>
        \o commandArguments
        \o (IF Truthy(dockerCommand2) THEN <<dockerCommand2>> ELSE <<containerName>>)

RcState(state, command, containerName, hasCb, found, error) ==
  [state |-> state, command |-> command, containerName |-> containerName,
   hasCb |-> hasCb, found |-> found, error |-> error]

\* The inputs of runCommand.
ArgPool == { <<"-","d">> }
ExtraArgs == UNION { [1..n -> ArgPool] : n \in 0..MaxArgs }
Commands ==
  { StringValue(a) : a \in ActionIds }
    \cup { ArrayValue(<<a>> \o x) : a \in ActionIds, x \in ExtraArgs }
Containers == { <<"w","e","b">>, <<"d","b">> }
TerminalIds == { xTerminalEmulator, gnomeTerminal, ptyxis, kgx }

\* The whole of runCommand up to the promise it returns.  spawnOK: whether
\* execCommand's child launches; asyncOK: whether spawn_command_line_async does.
RunCommandStep(command, containerName, hasCb, found, spawnOK, asyncOK) ==
  /\ LET vt == validTerminals(found)
         cmd == TerminalCmd(vt)
         line == IF SwitchCase(command) = "exec" THEN ExecLine(cmd, containerName)
                 ELSE LogsLine(cmd, containerName)
         c == execCommand(DefaultArgv(command, containerName), hasCb, spawnOK)
         Rc(state, error) == RcState(state, command, containerName, hasCb, found, error)
     IN  IF cmd = <<>>
         THEN /\ calls' = calls /\ spawned' = spawned
              /\ log' = IF hasCb THEN log \o <<CallbackEv(0, FALSE, command, errMsg(vt))>>
                        ELSE log
              /\ rc' = IF hasCb THEN Rc("resolved", NoError) ELSE Rc("rejected", TypeError)
         ELSE IF SwitchCase(command) \in {"exec", "logs"}
         THEN /\ calls' = calls /\ log' = log
              /\ spawned' = IF asyncOK THEN spawned \o <<line>> ELSE spawned
              /\ rc' = IF asyncOK THEN Rc("resolved", NoError) ELSE Rc("rejected", SpawnFailure)
         ELSE /\ calls' = <<c>>
              /\ log' = log \o LaunchLog(c, 1)
              /\ spawned' = spawned
              /\ rc' = IF spawnOK THEN Rc("pending", NoError) ELSE Rc("rejected", c.error)
  /\ UNCHANGED gc

\* A call of runCommand, with any of its inputs.
CallRunCommand ==
  /\ gc.state = "notcalled" /\ rc.state = "notcalled"
  /\ \E command \in Commands, containerName \in Containers, hasCb \in BOOLEAN,
        found \in SUBSET TerminalIds, spawnOK \in BOOLEAN, asyncOK \in BOOLEAN :
       RunCommandStep(command, containerName, hasCb, found, spawnOK, asyncOK)

\* What a lifecycle child may print.
RunOutputs == { <<>>, <<"w","e","b","\n">> }
RunResults == FailedResults \cup { CommSucceeds(o) : o \in RunOutputs }

\* The communicate callback of the child runCommand delegated to.
RunFinish(res) ==
  /\ rc.state = "pending" /\ calls[1].state = "running"
  /\ LET c == Settled(calls[1], res)
     IN  /\ calls' = <<c>>
         /\ log' = log \o SettleLog(calls[1], 1, res)
         /\ rc' = [rc EXCEPT !.state = c.state, !.error = c.error]
  /\ UNCHANGED <<spawned, gc>>

----------------------------------------------------------------------------
(* The specification: one call of getContainers or of runCommand, and the  *)
(* completions of the children it launched, in any order.                  *)

\* The indices in calls an inspect child can have: one per listing line.
InspectIds == 2..(1 + (MaxLen + 1) \div 2)

Init ==
  /\ calls = <<>> /\ log = <<>> /\ spawned = <<>>
  /\ gc = GcState("notcalled", <<>>, <<>>, NoError)
  /\ rc = RcState("notcalled", StringValue(<<>>), <<>>, FALSE, {}, NoError)

Next ==
  \/ \E spawnOK \in BOOLEAN : CallGetContainers(spawnOK)
  \/ PsFinish
  \/ \E id \in InspectIds : \E res \in InspectResults : InspectFinish(id, res)
  \/ CallRunCommand
  \/ \E res \in RunResults : RunFinish(res)

Spec == Init /\ [][Next]_vars
----------------------------------------------------------------------------
(* Readings of the state used by the properties. *)

\* The action id of a command: the string itself, or the array's first element.
ActionId(command) == IF command.isArray THEN At(command.items, 1) ELSE command.str

\* The extra arguments passed with the action id.
ActionArgs(command) == IF command.isArray THEN Tail(command.items) ELSE <<>>

Interactive == {exec, logs}
SimpleActions == {start, restart, stop, pause, unpause}

GcCalled == gc.state # "notcalled"
RcCalled == rc.state # "notcalled"

\* The positions in the log of the callback invocations.
CallbackEvents == { i \in 1..Len(log) : log[i].ev = "callback" }

\* A line is blank when every character of it is white space.
IsBlank(line) == \A k \in 1..Len(line) : line[k] \in Whitespace

\* The non-blank lines of the listing output, in order.
ListedLines ==
  LET lines == Split(calls[1].value, "\n")
      keep == { k \in 1..Len(lines) : ~IsBlank(lines[k]) }
      Nth(i) == CHOOSE k \in keep : Cardinality({ j \in keep : j <= k }) = i
  IN  [i \in 1..Cardinality(keep) |-> lines[Nth(i)]]

\* The label map the child of call id printed, if it printed one.
PrintedLabels(id) == { m \in LabelMaps : JSONText(m) \o <<"\n">> = calls[id].value }

\* The value of key k in label map m, undefined when m has no such key.
LabelValue(m, k) ==
  IF \E i \in 1..Len(m) : m[i][1] = k
  THEN m[CHOOSE i \in 1..Len(m) : m[i][1] = k][2]
  ELSE undefined

----------------------------------------------------------------------------
(* Properties. *)

\* C1: whenever a call execCommand(argv, callback) with a callback cannot
\* launch its child or the child fails, the callback has been invoked with
\* (false, argv joined by spaces, error text) before the promise was
\* rejected, and the promise never resolves.
C1_CallbackBeforeFailure ==
  \A id \in 1..Len(calls) :
    (/\ calls[id].hasCb
     /\ calls[id].state = "rejected"
     /\ calls[id].error.kind \in {"SpawnFailure", "IOErrorEnum"})
    => /\ \E i, j \in 1..Len(log) :
            /\ i < j
            /\ log[i].ev = "callback" /\ log[i].id = id /\ ~log[i].ok
            /\ log[i].cmd = StringValue(Join(calls[id].argv, <<" ">>))
            /\ log[j].ev = "reject" /\ log[j].id = id
       /\ ~\E j \in 1..Len(log) : log[j].ev = "resolve" /\ log[j].id = id

\* C2: a successful getContainers returns exactly one record per non-blank
\* listing line; record i carries the name and status of the i-th non-blank
\* line and the labels printed by the inspect child launched for that name,
\* whatever the order in which the inspect children completed.
C2_JoinedByIndex ==
  gc.state = "resolved" =>
    /\ Len(gc.value) = Len(ListedLines)
    /\ Len(calls) = Len(ListedLines) + 1
    /\ \A i \in 1..Len(gc.value) :
         LET fields == Split(ListedLines[i], ",")
             r == gc.value[i]
         IN  /\ r.name = fields[1]
             /\ r.status = At(fields, 2)
             /\ calls[i + 1].argv = InspectArgv(r.name)
             /\ [k \in (DOMAIN r) \ {"name", "status"} |-> r[k]]
                  = ComposePart(JSONParse(calls[i + 1].value).members)

\* C2 witness: two records, the second inspect child completed first, and only
\* one of the two containers carries compose labels.
C2_Witness ==
  /\ gc.state = "resolved" /\ Len(gc.value) = 2
  /\ ResolvedOrder(log) = <<1, 3, 2>>
  /\ "compose" \in DOMAIN gc.value[1]
  /\ "compose" \notin DOMAIN gc.value[2]
  /\ gc.value[1].name # gc.value[2].name

\* C3: getContainers is all-or-nothing: when the listing fails no inspect
\* child is launched and the operation fails; when any inspect call fails the
\* operation fails; and no list is returned unless the operation succeeds, in
\* which case it has a record for every inspect call.
C3_AllOrNothing ==
  GcCalled =>
    /\ calls[1].state = "rejected" => Len(calls) = 1 /\ gc.state = "rejected"
    /\ (\E id \in 2..Len(calls) : calls[id].state = "rejected") => gc.state = "rejected"
    /\ gc.state # "resolved" => gc.value = <<>>
    /\ gc.state = "resolved" =>
         /\ Len(gc.value) = Len(calls) - 1
         /\ \A id \in 1..Len(calls) : calls[id].state = "resolved"

\* C3 witness: one inspect call failed, another succeeded, all have completed.
C3_Witness ==
  /\ gc.state = "rejected" /\ Len(calls) = 3
  /\ calls[2].state = "resolved" /\ calls[3].state = "rejected"
  /\ calls[3].error.kind = "IOErrorEnum"
  /\ ResolvedOrder(log) = <<1, 2>>

\* C4: when every listed container has a name, every inspect child succeeds
\* and one of them prints the literal JSON null (the others printing label
\* objects), getContainers succeeds and the record of that container has name
\* and status and no compose field.
C4_NullLabelsTolerated ==
  (/\ GcCalled /\ Len(calls) >= 2
   /\ \A i \in 1..Len(gc.images) : Len(gc.images[i].name) > 0
   /\ \A id \in 2..Len(calls) :
        /\ calls[id].state = "resolved"
        /\ calls[id].value = <<"n","u","l","l","\n">> \/ PrintedLabels(id) # {}
   /\ \E id \in 2..Len(calls) : calls[id].value = <<"n","u","l","l","\n">>)
  => /\ gc.state = "resolved"
     /\ \A id \in 2..Len(calls) :
          calls[id].value = <<"n","u","l","l","\n">> => DOMAIN gc.value[id - 1] = {"name", "status"}

\* C5: in every record getContainers returns, compose is present if and only
\* if the inspected label map has a non-empty com.docker.compose.project
\* label; when present it holds exactly the service, project, config_files and
\* working_dir label values, and when absent the record has no such key.
C5_ComposeIffProject ==
  gc.state = "resolved" =>
    \A i \in 1..Len(gc.value) :
      LET r == gc.value[i]
      IN  /\ {"name", "status"} \subseteq DOMAIN r
          /\ DOMAIN r \subseteq {"name", "status", "compose"}
          /\ PrintedLabels(i + 1) # {}
          /\ \A m \in PrintedLabels(i + 1) :
               LET project == LabelValue(m, COMPOSE_PREFIX \o <<".","p","r","o","j","e","c","t">>)
               IN  /\ "compose" \in DOMAIN r <=> (project # undefined /\ Len(project) > 0)
                   /\ "compose" \in DOMAIN r =>
                        r.compose =
                          [service |-> LabelValue(m, COMPOSE_PREFIX \o <<".","s","e","r","v","i","c","e">>),
                           project |-> project,
                           configFiles |->
                             LabelValue(m, COMPOSE_PREFIX \o <<".","p","r","o","j","e","c","t",".","c","o","n","f","i","g","_","f","i","l","e","s">>),
                           workingDir |->
                             LabelValue(m, COMPOSE_PREFIX \o <<".","p","r","o","j","e","c","t",".","w","o","r","k","i","n","g","_","d","i","r">>)]

\* C5 witness: a record with all four compose values next to the record of a
\* container whose project label is the empty string.
C5_Witness ==
  /\ gc.state = "resolved" /\ Len(gc.value) = 2
  /\ "compose" \in DOMAIN gc.value[1]
  /\ gc.value[1].compose =
       [service |-> <<"s">>, project |-> <<"p">>, configFiles |-> <<"f">>, workingDir |-> <<"w">>]
  /\ calls[3].value = JSONText(<< <<ProjectKey, <<>> >>, <<ServiceKey, <<"s">>>> >>) \o <<"\n">>
  /\ DOMAIN gc.value[2] = {"name", "status"}

\* C6: for every action other than exec and logs and every terminal
\* availability, the one with no terminal included, runCommand (here called
\* with a callback) builds the docker command line and hands it to
\* execCommand.
C6_NonInteractiveDelegates ==
  (RcCalled /\ rc.hasCb /\ ActionId(rc.command) \notin Interactive)
  => /\ Len(calls) = 1
     /\ calls[1].argv[1] = <<"d","o","c","k","e","r">>

\* C7: when runCommand is called for exec or logs with a callback and none of
\* the four terminals is found, the callback is invoked exactly once, with
\* success false and a message naming every terminal id, and no process is
\* launched.
C7_NoTerminalReported ==
  (RcCalled /\ ActionId(rc.command) \in Interactive /\ rc.found = {} /\ rc.hasCb)
  => /\ Cardinality(CallbackEvents) = 1
     /\ \A i \in CallbackEvents :
          /\ ~log[i].ok
          /\ \A t \in {xTerminalEmulator, gnomeTerminal, ptyxis, kgx} :
               Contains(log[i].out, t)
     /\ calls = <<>>
     /\ spawned = <<>>

\* C7 witness: exec was dispatched with a callback and without any terminal.
C7_Witness ==
  /\ RcCalled /\ ActionId(rc.command) = exec /\ rc.found = {} /\ rc.hasCb
  /\ Len(log) = 1
  /\ log[1].out = <<"N","o"," ","v","a","l","i","d"," ","t","e","r","m","i","n","a","l"," ","f","o","u","n","d"," ","(","x","-","t","e","r","m","i","n","a","l","-","e","m","u","l","a","t","o","r",","," ","g","n","o","m","e","-","t","e","r","m","i","n","a","l",","," ","p","t","y","x","i","s",","," ","k","g","x",")">>

\* C8: every command dispatched through runCommand with a callback reports to
\* that callback, exec and logs with a terminal available included.  Stated
\* for the runs a finite prefix decides: once runCommand has completed
\* without an error, the callback has been invoked.
C8_CompletedCommandReported ==
  (RcCalled /\ rc.hasCb /\ rc.state = "resolved") => CallbackEvents # {}

\* C9: given the action id as the string that keys dockerCommandsToLabels and
\* a terminal available, exec and logs take the terminal path (a command line
\* wrapping docker exec -it <container> sh, or docker logs -f --tail 2000
\* <container>, launched without execCommand) and every other id takes the
\* execCommand path.  Stated for the calls in which no launch fails.
C9_StringIdsRouted ==
  (RcCalled /\ ~rc.command.isArray /\ rc.found # {} /\ rc.state # "rejected")
  => /\ rc.command.str = exec =>
          /\ calls = <<>>
          /\ \A i \in 1..Len(spawned) :
               Contains(spawned[i], <<"d","o","c","k","e","r"," ","e","x","e","c"," ","-","i","t"," ">> \o rc.containerName \o <<" ","s","h">>)
     /\ rc.command.str = logs =>
          /\ calls = <<>>
          /\ \A i \in 1..Len(spawned) :
               Contains(spawned[i], <<"d","o","c","k","e","r"," ","l","o","g","s"," ","-","f"," ","-","-","t","a","i","l"," ","2","0","0","0"," ">> \o rc.containerName)
     /\ rc.command.str \notin Interactive => Len(calls) = 1 /\ spawned = <<>>

\* C10: for an action other than exec and logs, the argv handed to
\* execCommand is docker, the first token of the action id, the extra
\* arguments, then the target: the second token of the id if it has one, the
\* container name otherwise.  So restart + web gives docker restart web, and
\* the container name is in argv only for single-token actions.
C10_DefaultArgv ==
  (RcCalled /\ ActionId(rc.command) \notin Interactive /\ calls # <<>>)
  => LET id == ActionId(rc.command)
         args == ActionArgs(rc.command)
         argv == calls[1].argv
     IN  /\ Len(calls) = 1
         /\ \A a \in SimpleActions :
              /\ id = a => argv = << <<"d","o","c","k","e","r">>, a >> \o args \o << rc.containerName >>
              /\ id = compose \o <<" ">> \o a =>
                   /\ argv = << <<"d","o","c","k","e","r">>, compose >> \o args \o << a >>
                   /\ \A k \in 1..Len(argv) : argv[k] # rc.containerName
         /\ (rc.command = StringValue(<<"r","e","s","t","a","r","t">>) /\ rc.containerName = <<"w","e","b">>)
              => argv = << <<"d","o","c","k","e","r">>, <<"r","e","s","t","a","r","t">>, <<"w","e","b">> >>
         /\ \E a \in SimpleActions : id = a \/ id = compose \o <<" ">> \o a

\* C10 witness: restart was dispatched for web and reached execCommand.
C10_Witness ==
  /\ rc.command = StringValue(<<"r","e","s","t","a","r","t">>) /\ rc.containerName = <<"w","e","b">>
  /\ Len(calls) = 1
  /\ calls[1].argv = << <<"d","o","c","k","e","r">>, <<"r","e","s","t","a","r","t">>, <<"w","e","b">> >>
====
